---- MODULE Spec2Model ----
(***************************************************************************)
(* Model of the AnyGrasp WebSocket server (src/server/main.py).            *)
(*                                                                         *)
(* One asyncio event loop runs one coroutine (grasp_websocket) per         *)
(* session.  A coroutine keeps the loop from the point it is resumed to    *)
(* its next await; `running` names the session whose coroutine holds the   *)
(* loop inside a synchronous stretch (0: the loop is free).  Clients act   *)
(* at any time: they connect, put messages on the wire and drop the        *)
(* transport.                                                              *)
(*                                                                         *)
(* Lengths are in hundredths of a metre so that the default workspace      *)
(* limits [-0.19, 0.12, 0.02, 0.15, 0.0, 1.0] are integers.                *)
(***************************************************************************)
EXTENDS Integers, Sequences, FiniteSets, TLC

\* ---------------------------------------------------------------- bounds
NumSessions == 2
MaxRequests == 2

\* default of prepare_grasp_data's max_grasps parameter
DefaultMaxGrasps == 20

Sessions == 1..NumSessions

\* ------------------------------------------------------- Python values
PyNone == [type |-> "NoneType", v |-> 0]
PyStr(n) == [type |-> "str", v |-> n]

NoExc == [type |-> "none", msg |-> ""]
KeyError(k) == [type |-> "KeyError", msg |-> k]
ValueError == [type |-> "ValueError", msg |-> "could not convert string to float"]
TypeError == [type |-> "TypeError", msg |-> "slice indices must be integers"]
EngineError == [type |-> "RuntimeError", msg |-> "inference failed"]
SendError == [type |-> "RuntimeError", msg |-> "send after close"]
AttributeError == [type |-> "AttributeError", msg |-> "'NoneType' object has no attribute 'get_grasp'"]

\* the values os.getenv("MAX_GRASPS") can have in a process: unset, or a string
MaxGraspsSettings == {PyNone, PyStr(DefaultMaxGrasps)}

\* ------------------------------------------------------------ requests
DefaultLims == <<-19, 12, 2, 15, 0, 100>>
ValidLims == <<-10, 10, -10, 10, 0, 50>>
InvalidLims == <<12, -19, 2, 15, 0, 100>>

\* A JSON field of a request: absent, present but not numeric, or (points,
\* colors) an N x 3 array of which the model keeps the number of rows N;
\* lims is absent or a list of six numbers.
Missing == [kind |-> "missing", n |-> 0]
Malformed == [kind |-> "malformed", n |-> 0]
Rows(n) == [kind |-> "array", n |-> n]
NoLims == [kind |-> "missing", v |-> <<>>]
Lims(v) == [kind |-> "list", v |-> v]

Payloads ==
  { [points |-> Missing, colors |-> Rows(1), lims |-> NoLims],
    [points |-> Rows(1), colors |-> Missing, lims |-> NoLims],
    [points |-> Malformed, colors |-> Rows(1), lims |-> NoLims],
    [points |-> Rows(0), colors |-> Rows(0), lims |-> NoLims],
    [points |-> Rows(2), colors |-> Rows(2), lims |-> NoLims],
    [points |-> Rows(2), colors |-> Rows(2), lims |-> Lims(ValidLims)],
    [points |-> Rows(2), colors |-> Rows(2), lims |-> Lims(InvalidLims)],
    [points |-> Rows(1), colors |-> Rows(2), lims |-> NoLims] }

\* a request is identified by the session it was sent on and its arrival
\* number among all requests
RequestId(s, n) == [session |-> s, n |-> n]

Request(id, p) ==
  [id |-> id, points |-> p.points, colors |-> p.colors, lims |-> p.lims]

NoData ==
  [id |-> RequestId(0, 0), points |-> Missing, colors |-> Missing,
   lims |-> NoLims]

\* a request whose content is no longer read: only its identity is kept
Consumed(d) == [NoData EXCEPT !.id = d.id]

VARIABLES
  environ,            \* os.getenv("MAX_GRASPS"), fixed for the process
  anygrasp,           \* the global engine: "None" or "loaded"
  load_net_calls,     \* number of anygrasp.load_net() calls
  active_connections, \* manager.active_connections (a list)
  pc,                 \* position of each session's handler
  transport,          \* "none", "open", "client_closed", "server_closed"
  inbox,              \* ids of the requests on the wire towards the server
  sent,               \* what each client has been sent: request id and kind
  requests_sent,      \* number of requests clients have sent so far
  received,           \* number of messages each handler's loop has received
  data,               \* local `data` of each handler
  gg,                 \* local `gg` of each handler
  result,             \* local `result` of each handler
  exc,                \* exception caught by each handler (`e`)
  executing,          \* the anygrasp.get_grasp calls in progress
  running             \* session whose coroutine holds the event loop, or 0

vars == <<environ, anygrasp, load_net_calls, active_connections, pc, transport,
          inbox, sent, requests_sent, received, data, gg, result, exc,
          executing, running>>

\* --------------------------------------------------------- pure helpers
Range(q) == {q[i] : i \in DOMAIN q}
Min(a, b) == IF a <= b THEN a ELSE b
Reverse(q) == [i \in 1..Len(q) |-> q[Len(q) + 1 - i]]

\* list.remove(x): the first occurrence is removed
RECURSIVE ListRemove(_, _)
ListRemove(q, x) ==
  IF q = <<>> THEN <<>>
  ELSE IF Head(q) = x THEN Tail(q)
  ELSE <<Head(q)>> \o ListRemove(Tail(q), x)

\* stable ascending insertion by score (np.argsort on a small array)
RECURSIVE InsertAsc(_, _)
InsertAsc(q, g) ==
  IF q = <<>> THEN <<g>>
  ELSE IF q[Len(q)].score <= g.score THEN Append(q, g)
  ELSE Append(InsertAsc(SubSeq(q, 1, Len(q) - 1), g), q[Len(q)])

RECURSIVE ArgsortAsc(_)
ArgsortAsc(q) ==
  IF q = <<>> THEN <<>>
  ELSE InsertAsc(ArgsortAsc(SubSeq(q, 1, Len(q) - 1)), q[Len(q)])

\* GraspGroup.sort_by_score(): argsort of the scores, reversed
sort_by_score(q) == Reverse(ArgsortAsc(q))

\* GraspGroup.nms(): by descending score, a candidate is kept unless a kept
\* one is its near-duplicate (same pose)
RECURSIVE Suppress(_, _)
Suppress(q, kept) ==
  IF q = <<>> THEN kept
  ELSE IF \E i \in DOMAIN kept : kept[i].pose = Head(q).pose
       THEN Suppress(Tail(q), kept)
       ELSE Suppress(Tail(q), Append(kept, Head(q)))

nms(q) == Suppress(sort_by_score(q), <<>>)

\* ------------------------------------------------------ the engine double
\* What anygrasp.get_grasp can return for a call: no candidate, two distinct
\* candidates in ascending score order, two near-duplicates, and
\* DefaultMaxGrasps + 1 distinct candidates.
\* The double marks each candidate's object_id with the calling session.
Cand(sc, po, marker) == [score |-> sc, pose |-> po, object_id |-> marker]

LongOutput(marker) ==
  [i \in 1..(DefaultMaxGrasps + 1) |->
     Cand(DefaultMaxGrasps + 2 - i, i, marker)]

EngineOutputs(marker) ==
  { <<>>,
    <<Cand(1, 1, marker), Cand(2, 2, marker)>>,
    <<Cand(1, 1, marker), Cand(2, 1, marker)>>,
    LongOutput(marker) }

\* ------------------------------------------------------ pipeline stages
\* lines 130-134: np.array(data["points"]), np.array(data["colors"]),
\* data.get("lims", default)
\* data.get("lims") without the default
lims_of_no_default(d) == d.lims.v

lims_of(d) == IF d.lims.kind = "missing" THEN DefaultLims ELSE d.lims.v

decode(d) ==
  IF d.points.kind = "missing" THEN [exc |-> KeyError("'points'")]
  ELSE IF d.points.kind = "malformed" THEN [exc |-> ValueError]
  ELSE IF d.colors.kind = "missing" THEN [exc |-> KeyError("'colors'")]
  ELSE IF d.colors.kind = "malformed" THEN [exc |-> ValueError]
  ELSE [exc |-> NoExc]

\* lines 82-89: the arguments of anygrasp.get_grasp
\* the engine asked for dense grasps, without object mask
get_grasp_call_dense(s, d) ==
  [session |-> s, points |-> d.points.n, colors |-> d.colors.n,
   lims |-> lims_of(d), apply_object_mask |-> FALSE, dense_grasp |-> TRUE,
   collision_detection |-> TRUE]

get_grasp_call(s, d) ==
  [session |-> s, points |-> d.points.n, colors |-> d.colors.n,
   lims |-> lims_of(d), apply_object_mask |-> TRUE, dense_grasp |-> FALSE,
   collision_detection |-> TRUE]

\* lines 91-95: NMS and sort, skipped for an empty group
\* the candidates handed on as the engine returned them
post_process_skipped(q) == q

post_process(q) == IF Len(q) > 0 THEN sort_by_score(nms(q)) ELSE q

\* post_process on every output of the engine double, computed once
PostProcessed ==
  [m \in Sessions |-> [out \in EngineOutputs(m) |-> post_process(out)]]

\* gg[0:max_grasps]: None is no bound, an int bounds, anything else is a
\* TypeError of the slice
slice_to(q, m) ==
  IF m.type = "NoneType" THEN [exc |-> NoExc, value |-> q]
  ELSE IF m.type = "int"
       THEN [exc |-> NoExc, value |-> SubSeq(q, 1, Min(Len(q), m.v))]
       ELSE [exc |-> TypeError, value |-> <<>>]

\* the group sliced whatever its length
prepare_grasp_data_no_empty_check(q, max_grasps) == slice_to(q, max_grasps)

\* lines 97-119
prepare_grasp_data(q, max_grasps) ==
  IF Len(q) = 0 THEN [exc |-> NoExc, value |-> <<>>]
  ELSE slice_to(q, max_grasps)

\* line 140: the second argument of prepare_grasp_data
max_grasps_arg == environ

\* ---------------------------------------------------------------- Init
Init ==
  /\ environ \in MaxGraspsSettings
  /\ anygrasp = "None"
  /\ load_net_calls = 0
  /\ active_connections = <<>>
  /\ pc = [s \in Sessions |-> "idle"]
  /\ transport = [s \in Sessions |-> "none"]
  /\ inbox = [s \in Sessions |-> <<>>]
  /\ sent = [s \in Sessions |-> <<>>]
  /\ requests_sent = 0
  /\ received = [s \in Sessions |-> 0]
  /\ data = [s \in Sessions |-> NoData]
  /\ gg = [s \in Sessions |-> <<>>]
  /\ result = [s \in Sessions |-> <<>>]
  /\ exc = [s \in Sessions |-> NoExc]
  /\ executing = {}
  /\ running = 0

\* ---------------------------------------------------- connection manager
\* ConnectionManager.connect, after the accept: lines 59-61
\* the session accepted and not registered
manager_connect_accept_only(s) == active_connections

manager_connect(s) == Append(active_connections, s)

\* self.active_connections.pop(): the last session is removed, whichever
manager_disconnect_pop(s) ==
  SubSeq(active_connections, 1, Len(active_connections) - 1)

\* ConnectionManager.disconnect: lines 63-64
manager_disconnect(s) == ListRemove(active_connections, s)

InList(s, q) == \E i \in DOMAIN q : q[i] = s

\* a broadcast: every registered session is written to
send_json_broadcast(s) == Range(active_connections)

\* ConnectionManager.send_json(data, websocket): the sessions written to
send_json_targets(s) == {s}

\* What websocket.send_json does on a session whose client is gone: the frame
\* is written to a dead socket and lost, or the send raises, as
\* WebSocketDisconnect or as another exception, depending on the ASGI stack.
GoneSendOutcomes == {"lost", "WebSocketDisconnect", "RuntimeError"}

\* process_grasp awaited in an executor: the event loop is free meanwhile
loop_released_in_process_grasp(s) == 0

\* the synchronous call of process_grasp (line 137) keeps the event loop
loop_owner_in_process_grasp(s) == s

\* --------------------------------------------------------------- startup
\* the engine constructed and left without its network
engine_not_loaded == "constructed"

\* the engine as startup_event leaves it: anygrasp = AnyGrasp(cfgs) (line
\* 50), then anygrasp.load_net() (line 51)
engine_after_startup == "loaded"

\* startup_event, lines 45-52: runs once, before any connection is served
Startup ==
  /\ anygrasp = "None"
  /\ running = 0
  /\ anygrasp' = engine_after_startup
  /\ load_net_calls' =
       IF engine_after_startup = "loaded" THEN load_net_calls + 1
       ELSE load_net_calls
  /\ UNCHANGED <<environ, active_connections, pc, transport, inbox, sent,
                 requests_sent, received, data, gg, result, exc, executing,
                 running>>

\* --------------------------------------------------------------- clients
\* A client puts a request on the wire. Nothing reads a request's content
\* before receive_json returns it, so the content is drawn there.
ClientSend(s) ==
  /\ transport[s] = "open"
  /\ requests_sent < MaxRequests
  /\ requests_sent' = requests_sent + 1
  /\ inbox' = [inbox EXCEPT ![s] = Append(@, RequestId(s, requests_sent + 1))]
  /\ UNCHANGED <<environ, anygrasp, load_net_calls, active_connections, pc,
                 transport, sent, received, data, gg, result, exc, executing,
                 running>>

ClientDisconnect(s) ==
  /\ transport[s] = "open"
  /\ transport' = [transport EXCEPT ![s] = "client_closed"]
  /\ UNCHANGED <<environ, anygrasp, load_net_calls, active_connections, pc,
                 inbox, sent, requests_sent, received, data, gg, result, exc,
                 executing, running>>

\* -------------------------------------------------------- grasp_websocket
\* the wire messages: a success response is the list of grasps, an error
\* response is {"error": str(e)}
ResultMessage(s) == [kind |-> "result", error |-> "", grasps |-> result[s]]

\* the exception swallowed: an empty list of grasps is sent instead
ErrorMessageAsEmptyResult(s) == [kind |-> "result", error |-> "", grasps |-> <<>>]

ErrorMessage(s) == [kind |-> "error", error |-> exc[s].msg, grasps |-> <<>>]

\* what the log of a client keeps of a message: its kind, and the request
\* the sending handler was serving
Logged(s, msg) == [req |-> data[s].id, kind |-> msg.kind]

Deliver(s, msg) ==
  [t \in Sessions |->
     IF t \in send_json_targets(s) THEN Append(sent[t], Logged(s, msg))
     ELSE sent[t]]

\* manager.disconnect(websocket) as the handler's last statement (lines 145,
\* 150): list.remove raises ValueError, which leaves the handler, when the
\* session is not in the list
Deregister(s) ==
  IF InList(s, active_connections)
  THEN /\ active_connections' = manager_disconnect(s)
       /\ pc' = [pc EXCEPT ![s] = "done"]
  ELSE /\ active_connections' = active_connections
       /\ pc' = [pc EXCEPT ![s] = "crashed"]

\* The handler has returned or raised: its locals are gone, the socket is
\* closed by the server if the client has not closed it, and what was still
\* on the wire is never read.
Terminated(s) ==
  /\ transport' = [transport EXCEPT ![s] = IF @ = "open" THEN "server_closed" ELSE @]
  /\ inbox' = [inbox EXCEPT ![s] = <<>>]
  /\ received' = [received EXCEPT ![s] = 0]
  /\ data' = [data EXCEPT ![s] = NoData]
  /\ gg' = [gg EXCEPT ![s] = <<>>]
  /\ result' = [result EXCEPT ![s] = <<>>]
  /\ exc' = [exc EXCEPT ![s] = NoExc]

\* lines 122-123: a client opens a session and the handler's
\* await manager.connect(websocket) completes: the session is accepted and
\* registered. The server serves connections once startup has run. Sessions
\* are numbered in the order in which they connect.
Connect(s) ==
  /\ anygrasp # "None"
  /\ pc[s] = "idle"
  /\ \A t \in Sessions : t < s => pc[t] # "idle"
  /\ running = 0
  /\ transport' = [transport EXCEPT ![s] = "open"]
  /\ active_connections' = manager_connect(s)
  /\ pc' = [pc EXCEPT ![s] = "receive"]
  /\ UNCHANGED <<environ, anygrasp, load_net_calls, inbox, sent,
                 requests_sent, received, data, gg, result, exc, executing,
                 running>>

\* the newest unread frame taken, older ones left waiting
receive_json_newest(q) ==
  [msg |-> q[Len(q)], rest |-> SubSeq(q, 1, Len(q) - 1)]

\* await websocket.receive_json() (line 127) on unread frames q: the oldest
\* frame is returned and the others stay unread, in their order
receive_json(q) == [msg |-> Head(q), rest |-> Tail(q)]

\* lines 127-137: receive_json returns a message; it is decoded and either
\* process_grasp is entered (anygrasp.get_grasp starts) or the decoding
\* raises and the handler reaches the await of line 149
ReceiveMessage(s) ==
  /\ pc[s] = "receive"
  /\ running = 0
  /\ inbox[s] # <<>>
  /\ \E p \in Payloads :
     LET d == Request(receive_json(inbox[s]).msg, p)
         failure == IF decode(d).exc # NoExc THEN decode(d).exc
                    ELSE IF anygrasp = "None" THEN AttributeError
                    ELSE NoExc
     IN /\ inbox' = [inbox EXCEPT ![s] = receive_json(@).rest]
        /\ received' = [received EXCEPT ![s] = @ + 1]
        /\ IF failure = NoExc
           THEN /\ data' = [data EXCEPT ![s] = d]
                /\ executing' = executing \cup {get_grasp_call(s, d)}
                /\ pc' = [pc EXCEPT ![s] = "inferring"]
                /\ running' = loop_owner_in_process_grasp(s)
                /\ exc' = exc
           ELSE /\ data' = [data EXCEPT ![s] = Consumed(d)]
                /\ exc' = [exc EXCEPT ![s] = failure]
                /\ pc' = [pc EXCEPT ![s] = "send_error"]
                /\ UNCHANGED <<executing, running>>
  /\ UNCHANGED <<environ, anygrasp, load_net_calls, active_connections,
                 transport, sent, requests_sent, gg, result>>

\* line 127 raises WebSocketDisconnect: lines 144-146
ReceiveDisconnect(s) ==
  /\ pc[s] = "receive"
  /\ running = 0
  /\ inbox[s] = <<>>
  /\ transport[s] = "client_closed"
  /\ Deregister(s)
  /\ Terminated(s)
  /\ UNCHANGED <<environ, anygrasp, load_net_calls, sent, requests_sent,
                 executing, running>>

\* lines 82-95 and 140: anygrasp.get_grasp returns or raises; the group is
\* post-processed and prepared, and the handler reaches the await of line
\* 142 with the result, or that of line 149 with the exception
InferenceReturns(s) ==
  /\ pc[s] = "inferring"
  /\ running = loop_owner_in_process_grasp(s)
  /\ executing' = {c \in executing : c.session # s}
  /\ running' = 0
  /\ data' = [data EXCEPT ![s] = Consumed(@)]
  /\ \/ /\ exc' = [exc EXCEPT ![s] = EngineError]
        /\ pc' = [pc EXCEPT ![s] = "send_error"]
        /\ UNCHANGED <<gg, result>>
     \/ \E out \in EngineOutputs(s) :
          LET q == PostProcessed[s][out]
              prep == prepare_grasp_data(q, max_grasps_arg)
          IN IF prep.exc = NoExc
             THEN /\ gg' = [gg EXCEPT ![s] = q]
                  /\ result' = [result EXCEPT ![s] = prep.value]
                  /\ pc' = [pc EXCEPT ![s] = "send"]
                  /\ exc' = exc
             ELSE /\ gg' = [gg EXCEPT ![s] = q]
                  /\ exc' = [exc EXCEPT ![s] = prep.exc]
                  /\ pc' = [pc EXCEPT ![s] = "send_error"]
                  /\ UNCHANGED result
  /\ UNCHANGED <<environ, anygrasp, load_net_calls, active_connections,
                 transport, inbox, sent, requests_sent, received>>

\* line 142: await manager.send_json(result, websocket), then the loop goes
\* back to line 127; the locals are rebound there before they are read again
SendResult(s) ==
  /\ pc[s] = "send"
  /\ running = 0
  /\ \/ /\ transport[s] = "open"
        /\ sent' = Deliver(s, ResultMessage(s))
        /\ pc' = [pc EXCEPT ![s] = "receive"]
        /\ data' = [data EXCEPT ![s] = NoData]
        /\ gg' = [gg EXCEPT ![s] = <<>>]
        /\ result' = [result EXCEPT ![s] = <<>>]
        /\ UNCHANGED <<active_connections, exc, transport, inbox, received>>
     \/ /\ transport[s] = "client_closed"
        /\ \E outcome \in GoneSendOutcomes :
             CASE outcome = "lost" ->
                    /\ pc' = [pc EXCEPT ![s] = "receive"]
                    /\ data' = [data EXCEPT ![s] = NoData]
                    /\ gg' = [gg EXCEPT ![s] = <<>>]
                    /\ result' = [result EXCEPT ![s] = <<>>]
                    /\ UNCHANGED <<active_connections, exc, transport, inbox, received>>
               [] outcome = "WebSocketDisconnect" ->
                    /\ Deregister(s)
                    /\ Terminated(s)
               [] outcome = "RuntimeError" ->
                    /\ exc' = [exc EXCEPT ![s] = SendError]
                    /\ pc' = [pc EXCEPT ![s] = "send_error"]
                    /\ gg' = [gg EXCEPT ![s] = <<>>]
                    /\ result' = [result EXCEPT ![s] = <<>>]
                    /\ UNCHANGED <<active_connections, data, transport, inbox, received>>
        /\ UNCHANGED sent
  /\ UNCHANGED <<environ, anygrasp, load_net_calls, requests_sent, executing,
                 running>>

\* lines 147-150: the error payload is sent, then the session is
\* deregistered and the handler returns; an exception of the send is raised
\* inside the except clause and leaves the handler before line 150
SendErrorPayload(s) ==
  /\ pc[s] = "send_error"
  /\ running = 0
  /\ \/ /\ transport[s] = "open"
        /\ sent' = Deliver(s, ErrorMessage(s))
        /\ Deregister(s)
     \/ /\ transport[s] = "client_closed"
        /\ \E outcome \in GoneSendOutcomes :
             IF outcome = "lost"
             THEN Deregister(s)
             ELSE /\ pc' = [pc EXCEPT ![s] = "crashed"]
                  /\ UNCHANGED active_connections
        /\ UNCHANGED sent
  /\ Terminated(s)
  /\ UNCHANGED <<environ, anygrasp, load_net_calls, requests_sent, executing,
                 running>>

\* ------------------------------------------------------------------ Next
Next ==
  \/ Startup
  \/ \E s \in Sessions : ClientSend(s)
  \/ \E s \in Sessions : ClientDisconnect(s)
  \/ \E s \in Sessions : Connect(s)
  \/ \E s \in Sessions : ReceiveMessage(s)
  \/ \E s \in Sessions : ReceiveDisconnect(s)
  \/ \E s \in Sessions : InferenceReturns(s)
  \/ \E s \in Sessions : SendResult(s)
  \/ \E s \in Sessions : SendErrorPayload(s)

Spec == Init /\ [][Next]_vars

\* ================================================================ claims
Last(q) == q[Len(q)]
Ended(s) == pc[s] \in {"done", "crashed"}
Serving(s) == pc[s] \in {"receive", "inferring", "send", "send_error"}
Entries(r) ==
  {<<s, i>> \in Sessions \X (1..MaxRequests) :
     i \in DOMAIN sent[s] /\ sent[s][i].req = r}

\* C1: after a stage error the session stays open and registered and the
\* handler awaits the next message; only a disconnect of the client ends the
\* session loop. So a handler that has ended is one whose client is gone.
C1_OnlyDisconnectEndsSession ==
  \A s \in Sessions :
    /\ Ended(s) => transport[s] = "client_closed"
    /\ transport[s] = "open" /\ pc[s] # "idle" =>
         Serving(s) /\ InList(s, active_connections)

\* C2: a message whose processing raised an error while its client is
\* connected is answered by exactly one error payload, on its own session:
\* nothing has been sent for it when the error is caught, and once the
\* handler has answered, the session's last message is the one error payload
\* for that request and no other session was sent anything for it.
C2_OneErrorPayload ==
  \A s \in Sessions :
    /\ pc[s] = "send_error" =>
         /\ exc[s] # NoExc
         /\ Entries(data[s].id) = {}
    /\ pc[s] = "done" /\ transport[s] = "server_closed" =>
         /\ sent[s] # <<>>
         /\ Last(sent[s]).kind = "error"
         /\ Last(sent[s]).req.session = s
         /\ Entries(Last(sent[s]).req) = {<<s, Len(sent[s])>>}

C2_Witness ==
  \E s \in Sessions :
    /\ pc[s] = "done"
    /\ transport[s] = "server_closed"
    /\ Len(sent[s]) = 2
    /\ sent[s][1].kind = "result"
    /\ sent[s][2].kind = "error"

\* the process-wide max-grasps setting, 20 when MAX_GRASPS is not set
MaxCount == IF environ.type = "NoneType" THEN 20 ELSE environ.v

\* C3: a success response is no longer than maxCount and as long as
\* min(candidates after NMS, maxCount), maxCount being the MAX_GRASPS setting,
\* 20 when it is not set.
C3_ResultLength ==
  \A s \in Sessions :
    pc[s] = "send" =>
      /\ Len(result[s]) <= MaxCount
      /\ Len(result[s]) = Min(Len(gg[s]), MaxCount)

\* C4: the engine is never called with a number of points that differs from
\* the number of colors.
C4_NoEngineCallOnShapeMismatch ==
  \A c \in executing : c.points = c.colors

\* C5: the engine is never called with workspace limits whose min exceeds
\* the max on an axis.
C5_NoEngineCallOnInvalidLims ==
  \A c \in executing :
    /\ Len(c.lims) = 6
    /\ c.lims[1] <= c.lims[2]
    /\ c.lims[3] <= c.lims[4]
    /\ c.lims[5] <= c.lims[6]

\* C6: every message a session is sent answers a request of that session, no
\* request is answered twice, a connected session has one response per
\* request its handler has received, and the candidates of a response carry
\* the marker the engine double gave them for that session.
C6_OneOwnResponsePerRequest ==
  /\ \A s \in Sessions : \A i \in DOMAIN sent[s] :
       /\ sent[s][i].req.session = s
       /\ Entries(sent[s][i].req) = {<<s, i>>}
  /\ \A s \in Sessions :
       pc[s] = "receive" /\ transport[s] = "open" => Len(sent[s]) = received[s]
  /\ \A s \in Sessions :
       pc[s] = "send" =>
         \A i \in DOMAIN result[s] : result[s][i].object_id = s

C6_Witness ==
  /\ \A s \in Sessions :
       /\ transport[s] = "open"
       /\ pc[s] = "receive"
       /\ received[s] = 1
       /\ Len(sent[s]) = 1
  /\ \E s \in Sessions : sent[s][1].kind = "result"

C8_EndedSessionsAreDeregistered ==
  \A s \in Sessions : Ended(s) => ~InList(s, active_connections)

\* C9: at most one anygrasp.get_grasp call is executing at any time.
C9_OneInferenceAtATime ==
  /\ Cardinality(executing) <= 1
  /\ Cardinality({s \in Sessions : pc[s] = "inferring"}) <= 1

C9_Witness ==
  \E s, t \in Sessions :
    /\ s # t
    /\ pc[s] = "inferring"
    /\ pc[t] = "receive"
    /\ inbox[t] # <<>>

\* C10: for a request without a lims field the engine call is given the
\* limits [-0.19, 0.12, 0.02, 0.15, 0.0, 1.0] (here in hundredths).
C10_DefaultLimsPassedToEngine ==
  \A c \in executing :
    data[c.session].lims.kind = "missing" =>
      c.lims = <<-19, 12, 2, 15, 0, 100>>

C10_Witness ==
  \E c \in executing : data[c.session].lims.kind = "missing"

\* C11: the candidates of every success response are in descending order of
\* score, whatever order the engine returned them in.
C11_ResultsDescendingByScore ==
  \A s \in Sessions :
    pc[s] = "send" =>
      \A i \in 1..(Len(result[s]) - 1) :
        result[s][i].score >= result[s][i + 1].score

\* the engine returned two distinct candidates in ascending order of score
\* and the response holds the same two, the better one first
C11_Witness ==
  \E s \in Sessions :
    /\ pc[s] = "send"
    /\ result[s] = <<Cand(2, 2, s), Cand(1, 1, s)>>

InPipeline(s) == pc[s] \in {"inferring", "send", "send_error"}

\* C12: on one session a message is processed to completion before the next
\* one is received: the session never has two engine calls executing, while
\* a request is in the pipeline every response already sent is for an
\* earlier request and every unread message is a later one, and the
\* responses of a session are in the order of its requests.
C12_OneMessageAtATimePerSession ==
  \A s \in Sessions :
    /\ Cardinality({c \in executing : c.session = s}) <= 1
    /\ \A i, j \in DOMAIN sent[s] :
         i < j => sent[s][i].req.n < sent[s][j].req.n
    /\ \A i \in DOMAIN sent[s] : \A j \in DOMAIN inbox[s] :
         sent[s][i].req.n < inbox[s][j].n
    /\ InPipeline(s) =>
         /\ \A i \in DOMAIN sent[s] : sent[s][i].req.n < data[s].id.n
         /\ \A j \in DOMAIN inbox[s] : data[s].id.n < inbox[s][j].n
    /\ ~InPipeline(s) => \A c \in executing : c.session # s

\* the second request of a session is in the pipeline after its first one
\* has been answered
C12_Witness ==
  \E s \in Sessions :
    /\ InPipeline(s)
    /\ Len(sent[s]) = 1
    /\ sent[s][1].req.n < data[s].id.n

\* C13: the engine's model is loaded once, at startup: load_net is never
\* called a second time, whatever requests arrive, and whenever a session is
\* being served or an engine call is executing it has been called once and
\* the engine holds its network.
C13_ModelLoadedOnceBeforeUse ==
  /\ load_net_calls <= 1
  /\ (executing # {} \/ \E s \in Sessions : pc[s] # "idle") =>
       /\ anygrasp = "loaded"
       /\ load_net_calls = 1

\* the engine is running the second request of a session
C13_Witness ==
  \E c \in executing :
    /\ Len(sent[c.session]) = 1
    /\ received[c.session] = 2
    /\ load_net_calls = 1

\* C14: a send that fails because the session is gone is caught inside the
\* handler, for a result and for an error payload alike: no exception ever
\* leaves grasp_websocket.
C14_NoExceptionLeavesHandler ==
  \A s \in Sessions : pc[s] # "crashed"

\* C15: an empty candidate sequence returned by the engine is answered by a
\* success response with an empty list, never by an error payload: it is
\* handed on as it is, without NMS or sorting, the response built from it is
\* the empty list, and post-processing raises only on a non-empty group.
C15_EmptyEngineOutputIsEmptySuccess ==
  /\ \A s \in Sessions : PostProcessed[s][<<>>] = <<>>
  /\ \A s \in Sessions :
       /\ pc[s] = "send" /\ gg[s] = <<>> => result[s] = <<>>
       /\ pc[s] = "send_error" /\ exc[s] = TypeError => gg[s] # <<>>

\* an empty group about to be sent as a result while MAX_GRASPS is set
C15_Witness ==
  \E s \in Sessions :
    /\ pc[s] = "send"
    /\ gg[s] = <<>>
    /\ result[s] = <<>>
    /\ environ # PyNone

\* C16: inference calls are admitted in the order in which the requests
\* arrived at the server: while the engine runs a request, no request that
\* arrived before it is still waiting to be read on any session.
C16_InferenceInArrivalOrder ==
  \A s \in Sessions :
    pc[s] = "inferring" =>
      \A t \in Sessions : \A i \in DOMAIN inbox[t] :
        data[s].id.n < inbox[t][i].n

\* C17: every engine call asks for object-mask filtering and collision
\* detection and for no dense grasps, whatever the request holds.
C17_FixedEngineFlags ==
  \A c \in executing :
    /\ c.apply_object_mask = TRUE
    /\ c.collision_detection = TRUE
    /\ c.dense_grasp = FALSE

\* a call made for a request that brought its own limits
C17_Witness ==
  \E c \in executing : c.lims # DefaultLims

\* C18: a session is in active_connections at most once; a handler that may
\* still call manager.disconnect has its session in the list, a handler that
\* has called it has ended and its session is out of the list, and a handler
\* that left by an exception left before the call: list.remove never raises.
C18_DisconnectNeverFails ==
  /\ \A i, j \in DOMAIN active_connections :
       active_connections[i] = active_connections[j] => i = j
  /\ \A s \in Sessions :
       /\ Serving(s) => InList(s, active_connections)
       /\ pc[s] \in {"idle", "done"} => ~InList(s, active_connections)
       /\ pc[s] = "crashed" => InList(s, active_connections)

\* the session that connected first has been deregistered after an error
\* payload, the other one is still registered and served
C18_Witness ==
  \E s, t \in Sessions :
    /\ pc[s] = "done"
    /\ sent[s] # <<>>
    /\ Last(sent[s]).kind = "error"
    /\ Serving(t)
    /\ active_connections = <<t>>

\* C19: decode, engine call and post-processing of a message run as one
\* uninterrupted step: a step taken while the engine runs the request of a
\* session moves no other session's handler: no other session is
\* registered or deregistered, receives a message or is sent one.
C19_InferenceIsUninterrupted ==
  [][\A s \in Sessions :
       pc[s] = "inferring" =>
         \A t \in Sessions \ {s} :
           /\ pc'[t] = pc[t]
           /\ received'[t] = received[t]
           /\ sent'[t] = sent[t]
           /\ InList(t, active_connections') = InList(t, active_connections)]_vars

\* the engine runs the request of one session while the handler of another
\* one has a result to send
C19_Witness ==
  \E s, t \in Sessions :
    /\ s # t
    /\ pc[s] = "inferring"
    /\ pc[t] = "send"
    /\ transport[t] = "open"

====
